---- MODULE Spec2Model ----
\* Model of the Average Calculator microservice (src/hirthick/server.js):
\* the shared sliding window numberWindow, the GET /numbers/:numberid handler
\* with its suspension points, and the upstream fetch with its abort timer.
EXTENDS Integers, Sequences, FiniteSets, TLC

\* ------------------------------------------------------------------ bounds
\* Number of /numbers requests that arrive (each may be in flight at once);
\* request r is the r-th to arrive.
NumReq == 2
\* Length of the longest run of fresh values the upstream returns.
MaxRun == 12

\* --------------------------------------------------------------- constants
WINDOW_SIZE == 10

ValidIds == {"p", "f", "e", "r"}

API_ENDPOINTS ==
    [ p |-> "http://20.244.56.144/evaluation-service/primes",
      f |-> "http://20.244.56.144/evaluation-service/fibo",
      e |-> "http://20.244.56.144/evaluation-service/even",
      r |-> "http://20.244.56.144/evaluation-service/rand" ]

InvalidIdError == "Invalid number ID. Use p, f, e, or r."

\* ------------------------------------------------------------------- state
VARIABLES
    numberWindow,     \* the shared window (let numberWindow = [])
    pc,               \* per request: where its handler is suspended
    numberid,         \* per request: req.params.numberid
    windowPrevState,  \* per request: the copy taken before the fetch
    url,              \* per request: the URL its fetch was issued to
    res,              \* per request: the response sent
    fetches,          \* per request: number of upstream requests issued
    outcome,          \* per request: how its fetch ended
    avg,              \* per request: the value calculateAverage returned
    preMerge,         \* per request: the window right before its updateWindow call
    nodeEnv,          \* process.env.NODE_ENV
    completed         \* the requests whose fetch returned numbers, in that order

vars == << numberWindow, pc, numberid, windowPrevState, url, res, avg,
           fetches, outcome, preMerge, nodeEnv, completed >>

Req == 1 .. NumReq

\* Ids that arriving requests carry: two valid categories and an invalid one.
RequestIds == {"p", "r", "x"}

NoRes == [status |-> 0]
NoWindow == << -1 >>
NoAvg == [num |-> -1, den |-> 1]

\* ---------------------------------------------------------- array helpers
Range(s) == { s[i] : i \in 1 .. Len(s) }

\* Array.prototype.includes
Includes(s, x) == \E i \in 1 .. Len(s) : s[i] = x

\* Array.prototype.filter, keeping the elements that w does not include
RECURSIVE FilterNotIn(_, _)
FilterNotIn(s, w) ==
    IF s = << >> THEN << >>
    ELSE IF Includes(w, Head(s)) THEN FilterNotIn(Tail(s), w)
         ELSE << Head(s) >> \o FilterNotIn(Tail(s), w)

\* An index argument of Array.prototype.slice, resolved against length n:
\* a negative index counts from the end, and the result is clamped to 0 .. n.
SliceIndex(k, n) ==
    IF k < 0 THEN (IF n + k < 0 THEN 0 ELSE n + k)
    ELSE IF k > n THEN n ELSE k

\* Array.prototype.slice(begin, end): elements begin .. end-1 (0-based)
Slice(s, begin, end) ==
    SubSeq(s, SliceIndex(begin, Len(s)) + 1, SliceIndex(end, Len(s)))

\* Array.prototype.reduce((acc, num) => acc + num, 0)
RECURSIVE Sum(_)
Sum(s) == IF s = << >> THEN 0 ELSE Head(s) + Sum(Tail(s))

\* ------------------------------------------------------------ updateWindow
\* updateWindow appending all of unique (no slice to the free room).
UpdateWindow_AppendAll(w, newNumbers) ==
    LET unique == FilterNotIn(newNumbers, w) IN
    IF Len(unique) = 0 THEN w
    ELSE LET overflow == Len(w) + Len(unique) - WINDOW_SIZE
             trimmed  == IF overflow > 0 THEN Slice(w, overflow, Len(w)) ELSE w
         IN  trimmed \o unique

\* updateWindow evicting the newest elements instead of the oldest.
UpdateWindow_EvictBack(w, newNumbers) ==
    LET unique == FilterNotIn(newNumbers, w) IN
    IF Len(unique) = 0 THEN w
    ELSE LET overflow == Len(w) + Len(unique) - WINDOW_SIZE
             trimmed  == IF overflow > 0 THEN Slice(w, 0, Len(w) - overflow) ELSE w
         IN  trimmed \o Slice(unique, 0, WINDOW_SIZE - Len(trimmed))

\* updateWindow counting every fetched number, without the early return.
UpdateWindow_CountFetched(w, newNumbers) ==
    LET unique == FilterNotIn(newNumbers, w)
        overflow == Len(w) + Len(newNumbers) - WINDOW_SIZE
        trimmed  == IF overflow > 0 THEN Slice(w, overflow, Len(w)) ELSE w
    IN  trimmed \o Slice(unique, 0, WINDOW_SIZE - Len(trimmed))

\* updateWindow sizing the appended slice by the window before the eviction.
UpdateWindow_RoomBeforeTrim(w, newNumbers) ==
    LET unique == FilterNotIn(newNumbers, w) IN
    IF Len(unique) = 0 THEN w
    ELSE LET overflow == Len(w) + Len(unique) - WINDOW_SIZE
             trimmed  == IF overflow > 0 THEN Slice(w, overflow, Len(w)) ELSE w
         IN  trimmed \o Slice(unique, 0, WINDOW_SIZE - Len(w))

\* The window that updateWindow(newNumbers) leaves when it starts from w.
UpdateWindow(w, newNumbers) ==
    LET unique == FilterNotIn(newNumbers, w) IN
    IF Len(unique) = 0 THEN w
    ELSE LET overflow == Len(w) + Len(unique) - WINDOW_SIZE
             trimmed  == IF overflow > 0 THEN Slice(w, overflow, Len(w)) ELSE w
         IN  trimmed \o Slice(unique, 0, WINDOW_SIZE - Len(trimmed))

\* -------------------------------------------------------- calculateAverage
RECURSIVE Gcd(_, _)
Gcd(a, b) == IF b = 0 THEN a ELSE Gcd(b, a % b)

\* The quotient num / den as a fraction in lowest terms; 0 / 0 is NaN.
NaN == [num |-> 0, den |-> 0]
Div(num, den) ==
    IF den = 0 THEN NaN
    ELSE [num |-> num \div Gcd(num, den), den |-> den \div Gcd(num, den)]

\* calculateAverage dividing by the capacity instead of the length.
calculateAverage_ByCapacity(numbers) ==
    IF Len(numbers) = 0 THEN Div(0, 1)
    ELSE Div(Sum(numbers), WINDOW_SIZE)

calculateAverage(numbers) ==
    IF Len(numbers) = 0 THEN Div(0, 1)
    ELSE Div(Sum(numbers), Len(numbers))

\* Number.parseFloat(avg.toFixed(2)), in hundredths (values are non-negative)
ToFixed2(q) == (200 * q.num + q.den) \div (2 * q.den)

\* ---------------------------------------------------------------- upstream
Run(a, n) == [ i \in 1 .. n |-> a + i - 1 ]

\* The number lists an endpoint may put in the numbers field (the values stand
\* for whatever numbers the evaluation service returns). The primes endpoint
\* serves runs from 1 of several lengths (empty, short, exactly the capacity,
\* longer than the capacity) and the same runs with their first value repeated
\* at the end; the other endpoints serve runs from 11 and the list of the
\* documented scenario.
RunLens == {0, 2, WINDOW_SIZE, MaxRun}
RunsFrom(a) == { Run(a, n) : n \in RunLens }
Served(u) ==
    IF u = API_ENDPOINTS.p
    THEN RunsFrom(1) \cup { s \o << s[1] >> : s \in RunsFrom(1) \ { << >> } }
    ELSE (RunsFrom(11) \ { << >> }) \cup { << 4, 8, 15, 16, 23, 42 >> }
NumberLists == UNION { Served(API_ENDPOINTS[id]) : id \in ValidIds }

\* Non-success statuses the upstream may answer with.
ErrorStatuses == {404, 503}

\* `Status: ${response.status}`
StatusMessage(status) ==
    IF status = 404 THEN "Status: 404" ELSE "Status: 503"

\* Messages of the errors a failed fetch throws.
ConnectionMessage == "connect ECONNREFUSED"
MalformedMessage == "invalid json response body"

\* The message the error-handler middleware sends for an error with message m.
ErrorHandlerMessage(env, m) ==
    IF env = "production" THEN "Unexpected error" ELSE m

\* -------------------------------------------------------------------- Init
Init ==
    /\ numberWindow = << >>
    /\ pc = [r \in Req |-> "idle"]
    /\ numberid = [r \in Req |-> "none"]
    /\ windowPrevState = [r \in Req |-> NoWindow]
    /\ url = [r \in Req |-> "none"]
    /\ res = [r \in Req |-> NoRes]
    /\ avg = [r \in Req |-> NoAvg]
    /\ fetches = [r \in Req |-> 0]
    /\ outcome = [r \in Req |-> "none"]
    /\ preMerge = [r \in Req |-> NoWindow]
    /\ nodeEnv \in {"production", "development"}
    /\ completed = << >>

\* ------------------------------------------------- GET /numbers/:numberid
\* The handler starting the fetch before it checks the category.
Arrive_FetchFirst(r, id) ==
    /\ pc[r] = "idle"
    /\ \A q \in Req : q < r => pc[q] # "idle"
    /\ numberid' = [numberid EXCEPT ![r] = id]
    /\ fetches' = [fetches EXCEPT ![r] = @ + 1]
    /\ IF id \notin ValidIds
       THEN /\ res' = [res EXCEPT ![r] = [status |-> 400, error |-> InvalidIdError]]
            /\ pc' = [pc EXCEPT ![r] = "done"]
            /\ UNCHANGED << windowPrevState, url >>
       ELSE /\ windowPrevState' = [windowPrevState EXCEPT ![r] = numberWindow]
            /\ url' = [url EXCEPT ![r] = API_ENDPOINTS[id]]
            /\ pc' = [pc EXCEPT ![r] = "awaitHeaders"]
            /\ UNCHANGED res
    /\ UNCHANGED << numberWindow, avg, outcome, preMerge, nodeEnv, completed >>

\* The handler up to its first suspension: the category check, then the copy
\* of the window and the start of the fetch (with its abort timer armed).
Arrive(r, id) ==
    /\ pc[r] = "idle"
    /\ \A q \in Req : q < r => pc[q] # "idle"
    /\ numberid' = [numberid EXCEPT ![r] = id]
    /\ IF id \notin ValidIds
       THEN /\ res' = [res EXCEPT ![r] = [status |-> 400, error |-> InvalidIdError]]
            /\ pc' = [pc EXCEPT ![r] = "done"]
            /\ UNCHANGED << windowPrevState, url, fetches >>
       ELSE /\ windowPrevState' = [windowPrevState EXCEPT ![r] = numberWindow]
            /\ url' = [url EXCEPT ![r] = API_ENDPOINTS[id]]
            /\ fetches' = [fetches EXCEPT ![r] = @ + 1]
            /\ pc' = [pc EXCEPT ![r] = "awaitHeaders"]
            /\ UNCHANGED res
    /\ UNCHANGED << numberWindow, avg, outcome, preMerge, nodeEnv, completed >>

\* The handler merging into the copy it took before the fetch.
Respond200_StaleBase(r, numbers, how) ==
    /\ preMerge' = [preMerge EXCEPT ![r] = numberWindow]
    /\ numberWindow' = UpdateWindow(windowPrevState[r], numbers)
    /\ avg' = [avg EXCEPT ![r] = calculateAverage(numberWindow')]
    /\ res' = [res EXCEPT ![r] =
                 [ status          |-> 200,
                   windowPrevState |-> windowPrevState[r],
                   windowCurrState |-> numberWindow',
                   numbers         |-> numbers,
                   avg             |-> ToFixed2(avg'[r]) ]]
    /\ outcome' = [outcome EXCEPT ![r] = how]
    /\ pc' = [pc EXCEPT ![r] = "done"]
    /\ completed' = Append(completed, r)
    /\ UNCHANGED << numberid, windowPrevState, url, fetches, nodeEnv >>

\* The handler after fetchNumbersWithTimeout returned numbers: updateWindow,
\* calculateAverage and the 200 response, with no suspension in between.
Respond200(r, numbers, how) ==
    /\ preMerge' = [preMerge EXCEPT ![r] = numberWindow]
    /\ numberWindow' = UpdateWindow(numberWindow, numbers)
    /\ avg' = [avg EXCEPT ![r] = calculateAverage(numberWindow')]
    /\ res' = [res EXCEPT ![r] =
                 [ status          |-> 200,
                   windowPrevState |-> windowPrevState[r],
                   windowCurrState |-> numberWindow',
                   numbers         |-> numbers,
                   avg             |-> ToFixed2(avg'[r]) ]]
    /\ outcome' = [outcome EXCEPT ![r] = how]
    /\ pc' = [pc EXCEPT ![r] = "done"]
    /\ completed' = Append(completed, r)
    /\ UNCHANGED << numberid, windowPrevState, url, fetches, nodeEnv >>

\* The catch block also emptying the window.
Respond500_ClearsWindow(r, message, how) ==
    /\ res' = [res EXCEPT ![r] =
                 [ status  |-> 500,
                   error   |-> "Failed to process request",
                   message |-> message ]]
    /\ outcome' = [outcome EXCEPT ![r] = how]
    /\ pc' = [pc EXCEPT ![r] = "done"]
    /\ numberWindow' = << >>
    /\ UNCHANGED << numberid, windowPrevState, url, avg, fetches,
                    nodeEnv, completed >>

\* The handler's catch block: the 500 response carrying the error's message.
Respond500(r, message, how) ==
    /\ res' = [res EXCEPT ![r] =
                 [ status  |-> 500,
                   error   |-> "Failed to process request",
                   message |-> message ]]
    /\ outcome' = [outcome EXCEPT ![r] = how]
    /\ pc' = [pc EXCEPT ![r] = "done"]
    /\ UNCHANGED << numberWindow, numberid, windowPrevState, url, avg, fetches,
                    nodeEnv, completed >>

\* ------------------------------------------------------------ other routes
\* A request to another route is answered at once with the given response.
AnswerAtOnce(r, response) ==
    /\ pc[r] = "idle"
    /\ \A q \in Req : q < r => pc[q] # "idle"
    /\ res' = [res EXCEPT ![r] = response]
    /\ pc' = [pc EXCEPT ![r] = "done"]
    /\ UNCHANGED << numberWindow, numberid, windowPrevState, url, avg,
                    fetches, outcome, preMerge, nodeEnv, completed >>

\* GET /health (the timestamp field is left out)
Health(r) == AnswerAtOnce(r, [status |-> 200, body |-> "ok"])

\* GET /
Root(r) ==
    AnswerAtOnce(r, [status |-> 200, name |-> "Average Calculator Microservice"])

\* Any other route: the fallback middleware
NotFound(r) == AnswerAtOnce(r, [status |-> 404, error |-> "Not found"])

\* ------------------------------------------------ fetchNumbersWithTimeout
\* The upstream's headers arrive with a success status: the timer is cleared
\* and the function suspends again on response.json().
HeadersOk(r) ==
    /\ pc[r] = "awaitHeaders"
    /\ pc' = [pc EXCEPT ![r] = "awaitBody"]
    /\ UNCHANGED << numberWindow, numberid, windowPrevState, url, res, avg,
                    fetches, outcome, preMerge, nodeEnv, completed >>

\* The headers arrive with a non-success status: Error("Status: ...") is
\* thrown, is not an AbortError, and reaches the handler's catch block.
HeadersNotOk(r, status) ==
    /\ pc[r] = "awaitHeaders"
    /\ Respond500(r, StatusMessage(status), "status")
    /\ UNCHANGED preMerge

\* A network error answered by a second fetch (a retry).
ConnectionError_Retry(r) ==
    /\ pc[r] = "awaitHeaders"
    /\ fetches[r] < 2
    /\ fetches' = [fetches EXCEPT ![r] = @ + 1]
    /\ UNCHANGED << numberWindow, pc, numberid, windowPrevState, url, res, avg,
                    outcome, preMerge, nodeEnv, completed >>

\* fetch rejects with a network error (not an AbortError).
ConnectionError(r) ==
    /\ pc[r] = "awaitHeaders"
    /\ Respond500(r, ConnectionMessage, "connection")
    /\ UNCHANGED preMerge

\* The abort rethrown like any other error (no AbortError case).
TimerFires_Rethrown(r) ==
    /\ pc[r] = "awaitHeaders"
    /\ Respond500(r, "The user aborted a request.", "timeout")
    /\ UNCHANGED preMerge

\* The timer fires while fetch is pending: controller.abort() rejects the
\* fetch with an AbortError and the function returns [].
TimerFires(r) ==
    /\ pc[r] = "awaitHeaders"
    /\ Respond200(r, << >>, "timeout")

\* response.json() resolves with a body whose numbers field is a list.
BodyNumbers(r, list) ==
    /\ pc[r] = "awaitBody"
    /\ list \in Served(url[r])
    /\ Respond200(r, list, "numbers")

\* The missing field passed on as it is (no || []): updateWindow throws.
BodyNoField_Undefined(r) ==
    /\ pc[r] = "awaitBody"
    /\ preMerge' = [preMerge EXCEPT ![r] = numberWindow]
    /\ Respond500(r, "Cannot read properties of undefined (reading 'filter')",
                  "nofield")

\* response.json() resolves with a body that has no numbers field.
BodyNoField(r) ==
    /\ pc[r] = "awaitBody"
    /\ Respond200(r, << >>, "nofield")

\* Every error mapped to [] (no test of err.name).
BodyMalformed_Swallowed(r) ==
    /\ pc[r] = "awaitBody"
    /\ Respond200(r, << >>, "json")

\* response.json() rejects: the body is not JSON.
BodyMalformed(r) ==
    /\ pc[r] = "awaitBody"
    /\ Respond500(r, MalformedMessage, "json")
    /\ UNCHANGED preMerge

\* The numbers field is a truthy value that is not a list: updateWindow is
\* called and throws at newNumbers.filter, before it writes the window.
BodyNotAList(r) ==
    /\ pc[r] = "awaitBody"
    /\ preMerge' = [preMerge EXCEPT ![r] = numberWindow]
    /\ Respond500(r, "newNumbers.filter is not a function", "notalist")

Next ==
    \/ \E r \in Req, id \in RequestIds : Arrive(r, id)
    \/ \E r \in Req : HeadersOk(r)
    \/ \E r \in Req, status \in ErrorStatuses : HeadersNotOk(r, status)
    \/ \E r \in Req : ConnectionError(r)
    \/ \E r \in Req : TimerFires(r)
    \/ \E r \in Req, list \in NumberLists : BodyNumbers(r, list)
    \/ \E r \in Req : BodyNoField(r)
    \/ \E r \in Req : BodyMalformed(r)
    \/ \E r \in Req : BodyNotAList(r)
    \/ \E r \in Req : Health(r)
    \/ \E r \in Req : Root(r)
    \/ \E r \in Req : NotFound(r)

Spec == Init /\ [][Next]_vars

\* The event loop runs an armed timer's callback once its delay has passed;
\* nothing obliges the upstream to send headers or a body.
FairSpec == Spec /\ \A r \in Req : WF_vars(TimerFires(r))

\* --------------------------------------------------------- type invariant
TypeOK ==
    /\ numberWindow \in Seq(Int)
    /\ \A r \in Req : pc[r] \in {"idle", "awaitHeaders", "awaitBody", "done"}

\* ================================================================== claims
\* The /numbers requests answered 200.
Answered200 == { r \in Req : numberid[r] \in ValidIds /\ res[r].status = 200 }

\* The numbers of n that w does not hold, in the order of n, written without
\* the code's filter: position i of n is kept when its value is not in w.
RECURSIVE NotInWindow(_, _)
NotInWindow(n, w) ==
    IF Len(n) = 0 THEN << >>
    ELSE NotInWindow(SubSeq(n, 1, Len(n) - 1), w)
         \o (IF n[Len(n)] \in Range(w) THEN << >> ELSE << n[Len(n)] >>)

Max(a, b) == IF a > b THEN a ELSE b
Min(a, b) == IF a < b THEN a ELSE b

\* s with its first k elements removed, and the first k elements of s
DropFirst(s, k) == SubSeq(s, Min(k, Len(s)) + 1, Len(s))
TakeFirst(s, k) == SubSeq(s, 1, Min(k, Len(s)))

\* a is b with zero or more elements left out
RECURSIVE IsSubsequence(_, _)
IsSubsequence(a, b) ==
    IF a = << >> THEN TRUE
    ELSE IF b = << >> THEN FALSE
    ELSE IF Head(a) = Head(b) THEN IsSubsequence(Tail(a), Tail(b))
    ELSE IsSubsequence(a, Tail(b))

\* C1: the shared window never holds more than WINDOW_SIZE elements, whatever
\* the requests and whatever the length of the fetched lists.
C1_Capacity == Len(numberWindow) <= WINDOW_SIZE

\* A request merged a list longer than the capacity and the window is full.
C1_Witness ==
    \E r \in Answered200 :
        /\ Len(res[r].numbers) > WINDOW_SIZE
        /\ res[r].windowCurrState = numberWindow
        /\ Len(numberWindow) = WINDOW_SIZE

\* C2: no two positions of the shared window hold equal values, whatever
\* lists the upstream returns (lists with repeated values included).
C2_Distinct ==
    \A i, j \in 1 .. Len(numberWindow) :
        i # j => numberWindow[i] # numberWindow[j]

\* C3: a merge with a non-empty unique leaves trimmed ++ unique[0 : 10 - len(trimmed)],
\* where trimmed is the window without its first max(0, len(w) + len(unique) - 10)
\* elements; no element of unique beyond that prefix is in the result; and the
\* full window 1..10 merged with [11, 12] becomes 3..12.
C3_MergeReference ==
    \A r \in Answered200 :
        LET w       == preMerge[r]
            unique  == NotInWindow(res[r].numbers, w)
            trimmed == DropFirst(w, Max(0, Len(w) + Len(unique) - WINDOW_SIZE))
            take    == WINDOW_SIZE - Len(trimmed)
            result  == res[r].windowCurrState
        IN  /\ unique # << >> =>
                /\ result = trimmed \o TakeFirst(unique, take)
                /\ \A i \in (take + 1) .. Len(unique) : unique[i] \notin Range(result)
            /\ (w = Run(1, 10) /\ res[r].numbers = << 11, 12 >>) => result = Run(3, 10)

\* C4: the elements of the pre-merge window that a merge keeps are a suffix of
\* that window and stand at the front of the new window in the same order;
\* the elements after them are new values, in the order they were fetched.
C4_OrderPreserved ==
    \A r \in Answered200 :
        LET w      == preMerge[r]
            result == res[r].windowCurrState
        IN  \E k \in 0 .. Len(w) :
                LET kept  == SubSeq(w, k + 1, Len(w))
                    added == SubSeq(result, Len(kept) + 1, Len(result))
                IN  /\ Len(kept) <= Len(result)
                    /\ SubSeq(result, 1, Len(kept)) = kept
                    /\ Range(added) \cap Range(w) = {}
                    /\ IsSubsequence(added, res[r].numbers)

\* A merge evicted some but not all of a window and appended new values.
C4_Witness ==
    \E r \in Answered200 :
        LET w      == preMerge[r]
            result == res[r].windowCurrState
        IN  /\ Len(w) > 2
            /\ result # w
            /\ result[1] \in Range(w)
            /\ result[1] # w[1]
            /\ result[Len(result)] \notin Range(w)

\* C5: a merge of a list whose every element is already in the window (the
\* empty list and the window's own contents included) leaves the window as
\* it was, full or not.
C5_DuplicateOnlyNoOp ==
    \A r \in Answered200 :
        Range(res[r].numbers) \subseteq Range(preMerge[r])
            => res[r].windowCurrState = preMerge[r]

\* A full window was merged with its own full contents.
C5_Witness ==
    \E r \in Answered200 :
        /\ Len(preMerge[r]) = WINDOW_SIZE
        /\ res[r].numbers = preMerge[r]
        /\ numberWindow = preMerge[r]

\* C6: when the timer fires before the fetch resolves, the request answers
\* 200 with numbers = [], and its merge leaves the shared window, and so the
\* average, as they were.
C6_TimeoutDegrades ==
    [][ \A r \in Req :
          (outcome[r] = "none" /\ outcome'[r] = "timeout") =>
              /\ res'[r].status = 200
              /\ res'[r].numbers = << >>
              /\ preMerge'[r] = numberWindow
              /\ numberWindow' = numberWindow
              /\ res'[r].windowCurrState = numberWindow
              /\ avg'[r] = calculateAverage(numberWindow) ]_vars

\* A request timed out while the window held numbers.
C6_Witness ==
    \E r \in Req :
        /\ outcome[r] = "timeout"
        /\ pc[r] = "done"
        /\ numberWindow # << >>
        /\ preMerge[r] = numberWindow

\* C7: a request whose id is not p, f, e or r is answered 400 with the
\* invalid-id error, never starts an upstream fetch, and leaves the window
\* unchanged.
C7_InvalidIdShortCircuits ==
    [][ \A r \in Req :
          numberid'[r] \notin (ValidIds \cup {"none"}) =>
              /\ res'[r] = [status |-> 400, error |-> InvalidIdError]
              /\ fetches'[r] = 0
              /\ url'[r] = "none"
              /\ pc'[r] = "done"
              /\ numberid[r] = "none" => numberWindow' = numberWindow ]_vars

\* An invalid request was answered while the window held numbers.
C7_Witness ==
    \E r \in Req :
        /\ numberid[r] = "x"
        /\ res[r].status = 400
        /\ numberWindow # << >>

FetchFailures == {"status", "connection", "json"}

\* C8: when the fetch fails for a reason other than the timeout (non-2xx
\* status, connection error, malformed body), the request answers 500,
\* updateWindow is not called for it and the window stays as it was.
C8_FailedFetchNoMerge ==
    [][ \A r \in Req :
          (outcome[r] = "none" /\ outcome'[r] \in FetchFailures) =>
              /\ res'[r].status = 500
              /\ preMerge'[r] = NoWindow
              /\ numberWindow' = numberWindow ]_vars

\* A failed fetch was answered 500 while the window held numbers.
C8_Witness ==
    /\ numberWindow # << >>
    /\ \E r \in Req : outcome[r] \in FetchFailures /\ res[r].status = 500

\* C9: in every 200 response windowPrevState is the shared window as it
\* stood right before the request's own merge, so that windowCurrState is
\* the merge of the response's numbers into its windowPrevState.
C9_PrevStateIsPreMerge ==
    \A r \in Answered200 :
        /\ res[r].windowPrevState = preMerge[r]
        /\ res[r].windowCurrState = UpdateWindow(res[r].windowPrevState, res[r].numbers)

\* C10: in every 200 response the unrounded average is 0 for an empty
\* windowCurrState and otherwise avg * len = sum; a merge that leaves the
\* window empty answers avg 0; [4,8,15,16,23,42] merged into the empty window
\* gives that window and the average 18.
C10_AverageMatchesWindow ==
    \A r \in Answered200 :
        LET w == res[r].windowCurrState IN
        /\ w = << >> => (avg[r].num = 0 /\ avg[r].den = 1 /\ res[r].avg = 0)
        /\ w # << >> => (avg[r].den > 0 /\ avg[r].num * Len(w) = Sum(w) * avg[r].den)
        /\ (preMerge[r] = << >> /\ res[r].numbers = << 4, 8, 15, 16, 23, 42 >>) =>
               /\ w = << 4, 8, 15, 16, 23, 42 >>
               /\ avg[r] = [num |-> 18, den |-> 1]
               /\ res[r].avg = 1800

\* The first request timed out, and another merged the documented list.
C10_Witness ==
    /\ \E r \in Answered200 :
           outcome[r] = "timeout" /\ res[r].windowCurrState = << >>
    /\ \E r \in Answered200 :
           /\ preMerge[r] = << >>
           /\ res[r].numbers = << 4, 8, 15, 16, 23, 42 >>

\* The messages of the failures of C8.
FailureMessages ==
    { StatusMessage(st) : st \in ErrorStatuses }
        \cup { ConnectionMessage, MalformedMessage }

\* C11: the 500 response of a request whose fetch failed (not by timeout)
\* carries the failure's message when not in production mode, and only a
\* generic message, not the failure's own, when NODE_ENV is "production".
C11_ProductionSuppressesMessage ==
    \A r \in Req :
        outcome[r] \in FetchFailures =>
            /\ res[r].status = 500
            /\ nodeEnv # "production" => res[r].message \in FailureMessages
            /\ nodeEnv = "production" => res[r].message \notin FailureMessages

\* C12: every request with a valid category is eventually answered 200 or
\* 500, whatever the upstream does (no headers, headers and then no body, an
\* error), once the timer is allowed to fire.
C12_ValidRequestAnswered ==
    \A r \in Req :
        (pc[r] \in {"awaitHeaders", "awaitBody"})
            ~> (pc[r] = "done" /\ res[r].status \in {200, 500})

\* The window after the first i completed fetches have been merged one at a
\* time, in completion order, starting from the empty window.
RECURSIVE Replay(_)
Replay(i) ==
    IF i = 0 THEN << >>
    ELSE UpdateWindow(Replay(i - 1), res[completed[i]].numbers)

\* C13: the shared window is the result of applying the merges of the 200
\* requests one at a time in the order their fetches completed, and each 200
\* response reports the window and its average right after its own merge.
C13_MergesSerializable ==
    /\ numberWindow = Replay(Len(completed))
    /\ \A i \in 1 .. Len(completed) :
          LET r == completed[i] IN
          /\ res[r].status = 200
          /\ res[r].windowCurrState = Replay(i)
          /\ avg[r] = calculateAverage(Replay(i))
          /\ res[r].avg = ToFixed2(calculateAverage(Replay(i)))
    /\ \A r \in Answered200 : \E i \in 1 .. Len(completed) : completed[i] = r

\* Two requests were in flight together, and the later one's fetch completed
\* first; both merged new numbers.
C13_Witness ==
    /\ completed = << 2, 1 >>
    /\ windowPrevState[1] = << >>
    /\ windowPrevState[2] = << >>
    /\ res[1].numbers # << >>
    /\ res[2].numbers # << >>
    /\ preMerge[1] # << >>

\* C14: the window's length never decreases; a merge with a non-empty unique
\* leaves the length min(10, previous length + len(unique)); once the length
\* is 10 it is 10 in every later state.
C14_SizeMonotone ==
    [][ /\ Len(numberWindow') >= Len(numberWindow)
        /\ Len(numberWindow) = WINDOW_SIZE => Len(numberWindow') = WINDOW_SIZE
        /\ \A r \in Req :
              (Len(completed') > Len(completed) /\ completed'[Len(completed')] = r) =>
                  LET unique == NotInWindow(res'[r].numbers, numberWindow) IN
                  unique # << >> =>
                      Len(numberWindow') =
                          Min(WINDOW_SIZE, Len(numberWindow) + Len(unique)) ]_vars

\* A merge of new numbers into a full window: the window churned at capacity.
C14_Witness ==
    \E r \in Answered200 :
        /\ Len(preMerge[r]) = WINDOW_SIZE
        /\ res[r].windowCurrState # preMerge[r]
        /\ numberWindow = res[r].windowCurrState
        /\ Len(numberWindow) = WINDOW_SIZE

\* C15: the window starts empty and changes only in the updateWindow call of
\* a valid /numbers request whose fetch returned a sequence; /health, /,
\* unknown routes, invalid ids, failed requests and suspended requests leave
\* it unchanged.
C15_OnlyMergeWrites ==
    /\ numberWindow = << >>
    /\ [][ numberWindow' # numberWindow =>
              \E r \in Req :
                  /\ numberid[r] \in ValidIds
                  /\ pc[r] \in {"awaitHeaders", "awaitBody"}
                  /\ pc'[r] = "done"
                  /\ res'[r].status = 200
                  /\ completed' = Append(completed, r)
                  /\ numberWindow' = UpdateWindow(numberWindow, res'[r].numbers) ]_vars

\* With numbers in the window, a request to another route, an invalid id or
\* a failed fetch was answered.
C15_Witness ==
    /\ numberWindow # << >>
    /\ \E r \in Req :
          /\ preMerge[r] = NoWindow
          /\ res[r].status \in {200, 400, 404, 500}
          /\ \E q \in Answered200 :
                q < r /\ res[q].windowCurrState = numberWindow

\* C16: every request with a valid category issues exactly one upstream
\* request, to the URL bound to its category, whether it ends in success,
\* timeout or failure; no second attempt is made.
C16_SingleAttempt ==
    \A r \in Req :
        numberid[r] \in ValidIds =>
            /\ fetches[r] = 1
            /\ numberid[r] = "p" => url[r] = "http://20.244.56.144/evaluation-service/primes"
            /\ numberid[r] = "f" => url[r] = "http://20.244.56.144/evaluation-service/fibo"
            /\ numberid[r] = "e" => url[r] = "http://20.244.56.144/evaluation-service/even"
            /\ numberid[r] = "r" => url[r] = "http://20.244.56.144/evaluation-service/rand"

\* Two requests of different categories are done: one failed or timed out,
\* the other got numbers.
C16_Witness ==
    \E r, q \in Req :
        /\ numberid[r] = "p" /\ numberid[q] = "r"
        /\ pc[r] = "done" /\ pc[q] = "done"
        /\ outcome[r] \in {"timeout", "status", "connection", "json"}
        /\ outcome[q] = "numbers"

\* C17: when the upstream answers in time with a success status and a JSON
\* body without a numbers field, the fetch returns the empty sequence, the
\* request answers 200 with numbers = [], and the window is unchanged.
C17_MissingFieldIsEmpty ==
    [][ \A r \in Req :
          (outcome[r] = "none" /\ outcome'[r] = "nofield") =>
              /\ pc[r] = "awaitBody"
              /\ res'[r].status = 200
              /\ res'[r].numbers = << >>
              /\ res'[r].windowCurrState = numberWindow
              /\ numberWindow' = numberWindow ]_vars

\* A body without the field was answered while the window held numbers.
C17_Witness ==
    \E r \in Answered200 :
        /\ outcome[r] = "nofield"
        /\ numberWindow # << >>
        /\ preMerge[r] = numberWindow

\* The elements a merge of n into w evicts (the first overflow elements of w).
Evicted(w, n) ==
    TakeFirst(w, Max(0, Len(w) + Len(NotInWindow(n, w)) - WINDOW_SIZE))

\* C18 as stated: for every window w and fetched list n with at most 10
\* values not in w, merging n again right after merging n changes nothing.
C18_RemergeIdempotent ==
    \A r \in Answered200 :
        LET w == preMerge[r]
            n == res[r].numbers
        IN  Len(NotInWindow(n, w)) <= WINDOW_SIZE =>
                UpdateWindow(res[r].windowCurrState, n) = res[r].windowCurrState

\* C18 as amended: for every window w and fetched list n with at most 10
\* values not in w, none of whose values is evicted by the merge, merging n
\* again right after merging n changes nothing.
C18_RemergeIdempotentUnlessEvicted ==
    \A r \in Answered200 :
        LET w == preMerge[r]
            n == res[r].numbers
        IN  (/\ Len(NotInWindow(n, w)) <= WINDOW_SIZE
             /\ Range(n) \cap Range(Evicted(w, n)) = {}) =>
                UpdateWindow(res[r].windowCurrState, n) = res[r].windowCurrState

\* A merge evicted elements, its list held values of the window that stayed
\* and values that were new, and none of its values was evicted.
C18_Witness ==
    \E r \in Answered200 :
        LET w == preMerge[r]
            n == res[r].numbers
        IN  /\ Evicted(w, n) # << >>
            /\ Range(n) \cap Range(w) # {}
            /\ NotInWindow(n, w) # << >>
            /\ Len(NotInWindow(n, w)) <= WINDOW_SIZE
            /\ Range(n) \cap Range(Evicted(w, n)) = {}

====
